---- MODULE Spec2Model ----
(***************************************************************************)
(* Model of the expiring cache of SqlWrapper.py: Cache / DatabaseCache,     *)
(* and of the cached and direct lookups of SqlWrapper built on it.         *)
(*                                                                         *)
(* Time is counted in whole ticks.  DateTime.UtcNow is the variable        *)
(* utc_now; a System.TimeSpan is a number of ticks.  A DateTime is a       *)
(* number >= 0 and None is NULL.  Keys and values are opaque to the cache, *)
(* which only compares keys for equality and never reads a value.          *)
(* Every operation of the public surface is one action; an operation that  *)
(* raises keeps whatever it changed before raising.                        *)
(***************************************************************************)
EXTENDS Integers, Sequences, FiniteSets, TLC

\* ---- bounds of the model ----
MaxTTL == 1
MaxTime == 2
MaxHistory == 3

\* the keys and values of the calls: three keys and two values tell apart
\* every pair of writes the properties speak of; the runs with delete and
\* clear use the first two keys
Keys == {"q1", "q2", "q3"}
FewKeys == {"q1", "q2"}
Values == {"rowA", "rowB"}
Times == 0..MaxTime

\* None as a date, and None as a value or a result
NULL == -1
NoValue == "None"

VARIABLES
    cache,         \* Cache._cache: key -> [value, date], defined on the stored keys
    history,       \* DatabaseCache.__history: list of [key, date], index 1 is the head
    time_to_live,  \* DatabaseCache.__time_to_live
    utc_now,       \* DateTime.UtcNow
    lastOp,        \* the last call: its name, arguments, result and error
    lastValue,     \* per key: the value of the last completed set that no
                   \* delete of the key and no clear has followed, else NoValue
    lastSetAt,     \* per key: the time of the last completed set, NULL if none
    firstSetAt,    \* per key: the time of the completed set that began its run
                   \* of sets, each made while that one was not yet older than
                   \* time_to_live; NULL if none
    setsDistinct,  \* every completed set so far was on a key never set before
    first_cache,   \* SqlWrapper.first_cache: [cache, history] of that DatabaseCache
    list_cache,    \* SqlWrapper.list_cache: [cache, history] of that DatabaseCache
    lastCall       \* the last call of SqlWrapper: its name, arguments, result,
                   \* and the number of host lookups it made

vars == <<cache, history, time_to_live, utc_now, lastOp,
          lastValue, lastSetAt, firstSetAt, setsDistinct,
          first_cache, list_cache, lastCall>>

wrapper == <<first_cache, list_cache, lastCall>>

observers == <<lastValue, lastSetAt, firstSetAt, setsDistinct>>

\* ---- the call record: the arguments (key, value, date), what the call
\* returned (result: a value, count: a length, expired: a boolean), the error
\* it raised, and the keys its sweep removed from the dict ----
NoCall ==
    [op |-> "init", key |-> "", value |-> NoValue, date |-> NULL,
     result |-> NoValue, count |-> NULL, expired |-> FALSE,
     error |-> "", evicted |-> {}]

\* has_expired without its test for None
has_expired_NoNoneTest(date_time) ==
    (utc_now - date_time) > time_to_live

\* has_expired with ">=" for ">": a date is expired at the boundary already
has_expired_AtBoundary(date_time) ==
    IF date_time = NULL
    THEN TRUE
    ELSE (utc_now - date_time) >= time_to_live

\* ---- DatabaseCache.has_expired ----
\* "not date_time" holds of None alone: a DateTime is never falsy.
has_expired(date_time) ==
    IF date_time = NULL
    THEN TRUE
    ELSE (utc_now - date_time) > time_to_live

\* _is_valid that forgets the expiry of a stored key
_is_valid_Stored(key) ==
    IF key \notin DOMAIN cache
    THEN [raised |-> TRUE, valid |-> FALSE]
    ELSE [raised |-> FALSE, valid |-> TRUE]

\* ---- DatabaseCache._is_valid: raises KeyError on a key that is not stored ----
_is_valid(key) ==
    IF key \notin DOMAIN cache
    THEN [raised |-> TRUE, valid |-> FALSE]
    ELSE [raised |-> FALSE, valid |-> ~has_expired(cache[key].date)]

\* ---- Cache.__getitem__ ----
Cache___getitem__(key) ==
    LET v == _is_valid(key) IN
    IF v.raised \/ ~v.valid
    THEN [raised |-> TRUE, item |-> [value |-> NoValue, date |-> NULL]]
    ELSE [raised |-> FALSE, item |-> cache[key]]

\* ---- DatabaseCache.__getitem__ ----
DatabaseCache___getitem__(key) ==
    LET r == Cache___getitem__(key) IN
    IF r.raised
    THEN [error |-> "KeyError", result |-> NoValue]
    ELSE [error |-> "", result |-> r.item.value]

\* ---- Cache.__len__ ----
Cache___len__ == Cardinality(DOMAIN cache)

\* dict.pop(key) on a stored key
DictPop(c, key) == [k \in (DOMAIN c) \ {key} |-> c[k]]

\* ---- DatabaseCache._remove_invalid ----
\* Pops expired entries from the tail of the history and their keys from the
\* dict; dict.pop raises KeyError on a key that is not stored, and the loop
\* stops there with the history entry still in place.
RECURSIVE RemoveLoop(_, _, _)
RemoveLoop(c, h, ev) ==
    IF Len(h) = 0
    THEN [cache |-> c, history |-> h, raised |-> FALSE, evicted |-> ev]
    ELSE LET oldest == h[Len(h)] IN
         IF ~has_expired(oldest.date)
         THEN [cache |-> c, history |-> h, raised |-> FALSE, evicted |-> ev]
         ELSE IF oldest.key \notin DOMAIN c
         THEN [cache |-> c, history |-> h, raised |-> TRUE, evicted |-> ev]
         ELSE RemoveLoop(DictPop(c, oldest.key), SubSeq(h, 1, Len(h) - 1),
                         ev \cup {oldest.key})

\* _remove_invalid with "if" for "while": at most one entry is popped
_remove_invalid_Once(c, h) ==
    IF Len(h) = 0 \/ ~has_expired(h[Len(h)].date)
    THEN [cache |-> c, history |-> h, raised |-> FALSE, evicted |-> {}]
    ELSE IF h[Len(h)].key \notin DOMAIN c
    THEN [cache |-> c, history |-> h, raised |-> TRUE, evicted |-> {}]
    ELSE [cache |-> DictPop(c, h[Len(h)].key), history |-> SubSeq(h, 1, Len(h) - 1),
          raised |-> FALSE, evicted |-> {h[Len(h)].key}]

\* _remove_invalid whose loop never breaks: every entry of the history goes
_remove_invalid_NoBreak(c, h) ==
    LET keys == {h[i].key : i \in DOMAIN h} IN
    IF keys \subseteq DOMAIN c
    THEN [cache |-> [k \in (DOMAIN c) \ keys |-> c[k]], history |-> <<>>,
          raised |-> FALSE, evicted |-> keys]
    ELSE [cache |-> c, history |-> h, raised |-> TRUE, evicted |-> {}]

_remove_invalid(c, h) == RemoveLoop(c, h, {})

\* __setitem__ that keeps the item of a key that is already stored
Cache___setitem___KeepOld(c, key, item) ==
    [k \in (DOMAIN c) \cup {key} |-> IF k \in DOMAIN c THEN c[k] ELSE item]

\* ---- Cache.__setitem__ ----
Cache___setitem__(c, key, item) ==
    [k \in (DOMAIN c) \cup {key} |-> IF k = key THEN item ELSE c[k]]

\* __setitem__ that moves a re-set key to the head of the history (true LRU)
DatabaseCache___setitem___Lru(c, h, key, value) ==
    LET sw == _remove_invalid(c, h) IN
    IF sw.raised
    THEN [cache |-> sw.cache, history |-> sw.history, error |-> "KeyError",
          evicted |-> sw.evicted]
    ELSE LET now == utc_now
             item == [value |-> value, date |-> now]
             rest == SelectSeq(sw.history, LAMBDA e : e.key # key)
         IN [cache |-> Cache___setitem__(sw.cache, key, item),
             history |-> <<[key |-> key, date |-> now]>> \o rest,
             error |-> "",
             evicted |-> sw.evicted]

\* __setitem__ that appends a new key at the tail of the history
DatabaseCache___setitem___Append(c, h, key, value) ==
    LET sw == _remove_invalid(c, h) IN
    IF sw.raised
    THEN [cache |-> sw.cache, history |-> sw.history, error |-> "KeyError",
          evicted |-> sw.evicted]
    ELSE LET is_new == key \notin DOMAIN sw.cache
             now == utc_now
             item == [value |-> value, date |-> now]
         IN [cache |-> Cache___setitem__(sw.cache, key, item),
             history |-> IF is_new
                         THEN Append(sw.history, [key |-> key, date |-> now])
                         ELSE sw.history,
             error |-> "",
             evicted |-> sw.evicted]

\* __setitem__ that reads the clock a second time, later, for the history
DatabaseCache___setitem___TwoClocks(c, h, key, value) ==
    LET sw == _remove_invalid(c, h) IN
    IF sw.raised
    THEN [cache |-> sw.cache, history |-> sw.history, error |-> "KeyError",
          evicted |-> sw.evicted]
    ELSE LET is_new == key \notin DOMAIN sw.cache
             now == utc_now
             item == [value |-> value, date |-> now]
         IN [cache |-> Cache___setitem__(sw.cache, key, item),
             history |-> IF is_new
                         THEN <<[key |-> key, date |-> now + 1]>> \o sw.history
                         ELSE sw.history,
             error |-> "",
             evicted |-> sw.evicted]

\* ---- DatabaseCache.__setitem__ ----
DatabaseCache___setitem__(c, h, key, value) ==
    LET sw == _remove_invalid(c, h) IN
    IF sw.raised
    THEN [cache |-> sw.cache, history |-> sw.history, error |-> "KeyError",
          evicted |-> sw.evicted]
    ELSE LET is_new == key \notin DOMAIN sw.cache
             now == utc_now
             item == [value |-> value, date |-> now]
         IN [cache |-> Cache___setitem__(sw.cache, key, item),
             history |-> IF is_new
                         THEN <<[key |-> key, date |-> now]>> \o sw.history
                         ELSE sw.history,
             error |-> "",
             evicted |-> sw.evicted]

\* __delitem__ that reports success and removes nothing
Cache___delitem___Keep(c, key) == [cache |-> c, error |-> ""]

\* ---- Cache.__delitem__: dict.pop raises KeyError on a key that is not stored ----
Cache___delitem__(c, key) ==
    IF key \in DOMAIN c
    THEN [cache |-> DictPop(c, key), error |-> ""]
    ELSE [cache |-> c, error |-> "KeyError"]

\* clear with a single popitem
Cache_clear_Once(c) ==
    IF DOMAIN c = {} THEN c ELSE DictPop(c, CHOOSE k \in DOMAIN c : TRUE)

\* ---- Cache.clear: popitem until the dict is empty ----
Cache_clear(c) == [k \in {} |-> c[k]]

(***************************************************************************)
(* SqlWrapper                                                              *)
(*                                                                         *)
(* A query is written as the parts the pattern of add_top_1 tells apart:   *)
(* the text before the first SELECT, group 1 (SELECT with its ALL or       *)
(* DISTINCT and the white space the pattern takes with it), the "TOP n"    *)
(* the pattern skips, and group 2 (the rest).  A text the pattern does not *)
(* match has the first part only.  The text of the query is the four parts *)
(* put together.                                                           *)
(***************************************************************************)
Query(before, select, top, rest) ==
    [before |-> before, select |-> select, top |-> top, rest |-> rest]

Text(query) == query.before \o query.select \o query.top \o query.rest

\* the queries of the calls: "SELECT a", " SELECT a", "SELECT TOP 1 a" and
\* the empty text
EmptyQuery == Query("", "", "", "")
SelectA == Query("", "SELECT ", "", "a")
SpaceSelectA == Query(" ", "SELECT ", "", "a")
SelectTop1A == Query("", "SELECT ", "TOP 1", " a")

\* an ISqlParameter, and an argument that is none (the None of create_parameter)
Parameter(name, value) ==
    [is_parameter |-> TRUE, ParameterName |-> name, Value |-> value]
NotAParameter == [is_parameter |-> FALSE, ParameterName |-> "", Value |-> ""]

\* the calls, each a query and the parameter tuple left by
\* unpack_tuple_argument: a query without parameters and with two parameters
\* of one name, the empty query, and an argument that is no parameter.
\* get_list is asked the text that add_top_1 makes of the query get_first is
\* asked, so that the two caches come to hold the same keys; get_first is
\* asked that query with a blank before it too.
CallsOf(query) ==
    {<<query, <<>> >>,
     <<query, <<Parameter("n", "2"), Parameter("n", "1")>> >>,
     <<query, <<NotAParameter>> >>,
     <<EmptyQuery, <<>> >>}
ListCalls == CallsOf(SelectTop1A)
FirstCalls == CallsOf(SelectA) \cup {<<SpaceSelectA, <<>> >>}

\* what the host returns: SqlHelper.GetList a list of rows, SqlHelper.GetFirst
\* a row or None; the empty list is what get_list returns on invalid input
EmptyList == "[]"
ListResults == {"[row1]"}
FirstResults == {NoValue, "row1"}

\* ---- add_top_1 ----
\* re.search drops what stands before SELECT, the pattern drops a "TOP n"
\* that follows group 1 at once, and "TOP 1 " is put between the two groups;
\* a text without SELECT comes back as it is.
add_top_1(query) ==
    IF query.select = ""
    THEN Text(query)
    ELSE query.select \o "TOP 1 " \o query.rest

\* ---- SqlWrapper.serialize ----
\* The JSON object of {param.ParameterName: param.Value}, written as the set
\* of its members: of two parameters of one name the later one stays.  No
\* parameters give the empty string, written as the empty set (a tuple that
\* is not empty gives an object that is not empty).
serialize(params) ==
    {<<params[i].ParameterName, params[i].Value>> :
        i \in {j \in DOMAIN params :
                 \A l \in DOMAIN params :
                    l > j => params[l].ParameterName # params[j].ParameterName}}

\* ---- SqlWrapper.any_invalid_parameters ----
any_invalid_parameters(params) ==
    \E i \in DOMAIN params : ~params[i].is_parameter

\* ---- SqlWrapper.get_cache_key ----
get_cache_key(text, params) == [query |-> text, params |-> serialize(params)]

\* ---- SqlWrapper.is_valid ----
is_valid(text, params) == text # "" /\ ~any_invalid_parameters(params)

\* ---- a DatabaseCache object: its dict and its history ----
NoEntries ==
    [cache |-> [k \in {} |-> [value |-> NoValue, date |-> NULL]],
     history |-> <<>>]

\* ---- object[key] of a DatabaseCache object (DatabaseCache.__getitem__) ----
ReadCache(object, key) ==
    IF key \notin DOMAIN object.cache
    THEN [error |-> "KeyError", result |-> NoValue]
    ELSE IF has_expired(object.cache[key].date)
    THEN [error |-> "KeyError", result |-> NoValue]
    ELSE [error |-> "", result |-> object.cache[key].value]

\* ---- object[key] = value of a DatabaseCache object ----
WriteCache(object, key, value) ==
    LET r == DatabaseCache___setitem__(object.cache, object.history, key, value)
    IN [object |-> [cache |-> r.cache, history |-> r.history], error |-> r.error]

\* ---- the record of a call of SqlWrapper ----
NoQuery ==
    [name |-> "init", query |-> EmptyQuery, params |-> <<>>,
     lookups |-> 0, result |-> NoValue, error |-> ""]

\* the cached lookup with key "text": "found" is what the host would return
Cached(object, text, params, found) ==
    LET key == get_cache_key(text, params)
        r == ReadCache(object, key)
    IN IF r.error = ""
       THEN [object |-> object, lookups |-> 0, result |-> r.result, error |-> ""]
       ELSE LET w == WriteCache(object, key, found) IN
            [object |-> w.object, lookups |-> 1,
             result |-> IF w.error = "" THEN found ELSE NoValue,
             error |-> w.error]

\* get_list that does not store what it looked up
SqlWrapper_get_list_NoStore(object, query, params, rows) ==
    IF ~is_valid(Text(query), params)
    THEN [object |-> object, lookups |-> 0, result |-> EmptyList, error |-> ""]
    ELSE LET r == ReadCache(object, get_cache_key(Text(query), params)) IN
         IF r.error = ""
         THEN [object |-> object, lookups |-> 0, result |-> r.result, error |-> ""]
         ELSE [object |-> object, lookups |-> 1, result |-> rows, error |-> ""]

\* ---- SqlWrapper.get_list, on the object list_cache ----
SqlWrapper_get_list(object, query, params, rows) ==
    IF ~is_valid(Text(query), params)
    THEN [object |-> object, lookups |-> 0, result |-> EmptyList, error |-> ""]
    ELSE Cached(object, Text(query), params, rows)

\* ---- SqlWrapper.get_first, on the object first_cache ----
SqlWrapper_get_first(object, query, params, row) ==
    IF ~is_valid(Text(query), params)
    THEN [object |-> object, lookups |-> 0, result |-> NoValue, error |-> ""]
    ELSE Cached(object, add_top_1(query), params, row)

\* get_list_direct that goes through the cache
SqlWrapper_get_list_direct_Cached(object, query, params, rows) ==
    SqlWrapper_get_list(object, query, params, rows)

\* ---- SqlWrapper.get_list_direct ----
SqlWrapper_get_list_direct(object, query, params, rows) ==
    IF ~is_valid(Text(query), params)
    THEN [object |-> object, lookups |-> 0, result |-> EmptyList, error |-> ""]
    ELSE [object |-> object, lookups |-> 1, result |-> rows, error |-> ""]

\* ---- SqlWrapper.get_first_direct ----
SqlWrapper_get_first_direct(object, query, params, row) ==
    IF ~is_valid(Text(query), params)
    THEN [object |-> object, lookups |-> 0, result |-> NoValue, error |-> ""]
    ELSE [object |-> object, lookups |-> 1, result |-> row, error |-> ""]

\* ---- DatabaseCache.__init__ ----
\* The dict and the history start empty.  The time to live is a TimeSpan, taken
\* here as a duration >= 0; the clock starts at 0, as only differences of
\* dates are ever read.
Init ==
    /\ cache = [k \in {} |-> [value |-> NoValue, date |-> NULL]]
    /\ history = <<>>
    /\ time_to_live \in 0..MaxTTL
    /\ utc_now = 0
    /\ lastOp = NoCall
    /\ lastValue = [k \in Keys |-> NoValue]
    /\ lastSetAt = [k \in Keys |-> NULL]
    /\ firstSetAt = [k \in Keys |-> NULL]
    /\ setsDistinct = TRUE
    /\ first_cache = NoEntries
    /\ list_cache = NoEntries
    /\ lastCall = NoQuery

\* ---- cache[key] = value ----
\* A set that raises KeyError in its sweep keeps what the sweep had removed
\* and stores nothing.  The list of the history is kept to MaxHistory entries.
Set(key, value) ==
    LET r == DatabaseCache___setitem__(cache, history, key, value) IN
    /\ Len(r.history) <= MaxHistory
    /\ cache' = r.cache
    /\ history' = r.history
    /\ lastOp' = [NoCall EXCEPT !.op = "set", !.key = key, !.value = value,
                                !.error = r.error, !.evicted = r.evicted]
    /\ IF r.error = ""
       THEN /\ lastValue' = [lastValue EXCEPT ![key] = value]
            /\ lastSetAt' = [lastSetAt EXCEPT ![key] = utc_now]
            /\ firstSetAt' = [firstSetAt EXCEPT ![key] =
                                 IF @ = NULL \/ (utc_now - @) > time_to_live
                                 THEN utc_now ELSE @]
            /\ setsDistinct' = (setsDistinct /\ lastSetAt[key] = NULL)
       ELSE UNCHANGED observers
    /\ UNCHANGED <<time_to_live, utc_now>>
    /\ UNCHANGED wrapper

\* a read that drops the entry it finds expired
Get_Evicting(key) ==
    LET r == DatabaseCache___getitem__(key) IN
    /\ lastOp' = [NoCall EXCEPT !.op = "get", !.key = key,
                                !.result = r.result, !.error = r.error]
    /\ cache' = IF key \in DOMAIN cache /\ r.error # ""
                THEN DictPop(cache, key) ELSE cache
    /\ UNCHANGED <<history, time_to_live, utc_now, observers>>
    /\ UNCHANGED wrapper

\* ---- cache[key] ----
Get(key) ==
    LET r == DatabaseCache___getitem__(key) IN
    /\ lastOp' = [NoCall EXCEPT !.op = "get", !.key = key,
                                !.result = r.result, !.error = r.error]
    /\ UNCHANGED <<cache, history, time_to_live, utc_now, observers>>
    /\ UNCHANGED wrapper

\* ---- del cache[key] ----
Delete(key) ==
    LET r == Cache___delitem__(cache, key) IN
    /\ cache' = r.cache
    /\ lastOp' = [NoCall EXCEPT !.op = "delete", !.key = key, !.error = r.error]
    /\ lastValue' = [lastValue EXCEPT ![key] = NoValue]
    /\ UNCHANGED <<history, time_to_live, utc_now,
                   lastSetAt, firstSetAt, setsDistinct>>
    /\ UNCHANGED wrapper

\* ---- cache.clear() ----
Clear ==
    /\ cache' = Cache_clear(cache)
    /\ lastOp' = [NoCall EXCEPT !.op = "clear"]
    /\ lastValue' = [k \in Keys |-> NoValue]
    /\ UNCHANGED <<history, time_to_live, utc_now,
                   lastSetAt, firstSetAt, setsDistinct>>
    /\ UNCHANGED wrapper

\* ---- len(cache) ----
Size ==
    /\ lastOp' = [NoCall EXCEPT !.op = "len", !.count = Cache___len__]
    /\ UNCHANGED <<cache, history, time_to_live, utc_now, observers>>
    /\ UNCHANGED wrapper

\* ---- cache.has_expired(date_time) ----
HasExpired(date_time) ==
    /\ lastOp' = [NoCall EXCEPT !.op = "has_expired", !.date = date_time,
                                !.expired = has_expired(date_time)]
    /\ UNCHANGED <<cache, history, time_to_live, utc_now, observers>>
    /\ UNCHANGED wrapper

\* ---- the clock advances (it never goes back), up to MaxTime ----
Tick ==
    /\ utc_now < MaxTime
    /\ utc_now' = utc_now + 1
    /\ lastOp' = [NoCall EXCEPT !.op = "tick"]
    /\ UNCHANGED <<cache, history, time_to_live, observers>>
    /\ UNCHANGED wrapper

SetAny == \E key \in Keys, value \in Values : Set(key, value)
GetAny == \E key \in Keys : Get(key)
DeleteAny == \E key \in FewKeys : Delete(key)
SetFew == \E key \in FewKeys, value \in Values : Set(key, value)
GetFew == \E key \in FewKeys : Get(key)
\* the dates has_expired is asked about: None, the current time, and the
\* dates on either side of the expiry boundary
Dates == {NULL, utc_now} \cup
         ({utc_now - time_to_live, utc_now - time_to_live - 1} \cap (0..utc_now))
HasExpiredAny == \E d \in Dates : HasExpired(d)

Next == SetFew \/ GetFew \/ DeleteAny \/ Clear \/ Size \/ HasExpiredAny \/ Tick

Spec == Init /\ [][Next]_vars

\* set, get, size, has_expired and clock advances only
NextSetGet == SetAny \/ GetAny \/ Size \/ HasExpiredAny \/ Tick

SpecSetGet == Init /\ [][NextSetGet]_vars

(***************************************************************************)
(* The calls of SqlWrapper.  first_cache and list_cache are made with the  *)
(* class, each with one and the same time to live of two minutes, taken    *)
(* here as MaxTTL ticks of the clock.                                      *)
(***************************************************************************)
InitSqlWrapper == Init /\ time_to_live = MaxTTL

Call(name, query, params, r) ==
    [name |-> name, query |-> query, params |-> params,
     lookups |-> r.lookups, result |-> r.result, error |-> r.error]

\* ---- SqlWrapper.get_list(query, *params) ----
get_list(query, params) ==
    \E rows \in ListResults :
        LET r == SqlWrapper_get_list(list_cache, query, params, rows) IN
        /\ list_cache' = r.object
        /\ lastCall' = Call("get_list", query, params, r)
        /\ UNCHANGED <<first_cache, cache, history, time_to_live, utc_now,
                       lastOp, observers>>

\* ---- SqlWrapper.get_first(query, *params) ----
get_first(query, params) ==
    \E row \in FirstResults :
        LET r == SqlWrapper_get_first(first_cache, query, params, row) IN
        /\ first_cache' = r.object
        /\ lastCall' = Call("get_first", query, params, r)
        /\ UNCHANGED <<list_cache, cache, history, time_to_live, utc_now,
                       lastOp, observers>>

\* ---- SqlWrapper.get_list_direct(query, *params) ----
get_list_direct(query, params) ==
    \E rows \in ListResults :
        LET r == SqlWrapper_get_list_direct(list_cache, query, params, rows) IN
        /\ list_cache' = r.object
        /\ lastCall' = Call("get_list_direct", query, params, r)
        /\ UNCHANGED <<first_cache, cache, history, time_to_live, utc_now,
                       lastOp, observers>>

\* ---- SqlWrapper.get_first_direct(query, *params) ----
get_first_direct(query, params) ==
    \E row \in FirstResults :
        LET r == SqlWrapper_get_first_direct(first_cache, query, params, row) IN
        /\ first_cache' = r.object
        /\ lastCall' = Call("get_first_direct", query, params, r)
        /\ UNCHANGED <<list_cache, cache, history, time_to_live, utc_now,
                       lastOp, observers>>

get_listAny == \E c \in ListCalls : get_list(c[1], c[2])
get_firstAny == \E c \in FirstCalls : get_first(c[1], c[2])
get_list_directAny == \E c \in ListCalls : get_list_direct(c[1], c[2])
get_first_directAny == \E c \in FirstCalls : get_first_direct(c[1], c[2])

NextSqlWrapper ==
    get_listAny \/ get_firstAny \/ get_list_directAny \/ get_first_directAny
    \/ Tick

SpecSqlWrapper == InitSqlWrapper /\ [][NextSqlWrapper]_vars

(***************************************************************************)
(* The claims                                                              *)
(***************************************************************************)

\* the keys that a completed set has written
SetKeys == {k \in Keys : lastSetAt[k] # NULL}

\* the time since t is more than the time to live
Older(t) == (utc_now - t) > time_to_live

\* C1: a get of k at the very clock value of a completed set(k, v), whatever
\* was called in between, succeeds and returns the v of the latest such set.
C1_RoundTrip ==
    (lastOp.op = "get" /\ lastSetAt[lastOp.key] = utc_now)
        => (lastOp.error = "" /\ lastOp.result = lastValue[lastOp.key])

\* a get returned the second value written to its key at this clock value,
\* after the clock had advanced and with another key stored
C1_Witness ==
    /\ lastOp.op = "get"
    /\ lastOp.error = ""
    /\ lastSetAt[lastOp.key] = utc_now
    /\ firstSetAt[lastOp.key] < utc_now
    /\ lastOp.result = "rowB"
    /\ \E j \in DOMAIN cache : j # lastOp.key /\ cache[j].value = "rowA"

\* C2: a get that returns, returns the value of the last completed set of
\* its key, and no delete of that key and no clear has followed that set.
C2_NoStaleRead ==
    (lastOp.op = "get" /\ lastOp.error = "")
        => (lastOp.result # NoValue /\ lastOp.result = lastValue[lastOp.key])

\* a get returned the value of a key that had been removed and written again
\* (the history holds it twice), with another value under the other key
C2_Witness ==
    /\ lastOp.op = "get"
    /\ lastOp.error = ""
    /\ lastOp.result = "rowB"
    /\ \E j \in DOMAIN cache : j # lastOp.key /\ cache[j].value = "rowA"
    /\ \E i, j \in DOMAIN history :
          i # j /\ history[i].key = lastOp.key /\ history[j].key = lastOp.key

\* C3: a get returns a value only if the last completed set of its key is at
\* most time_to_live old; when that set is older, or there is none, the get
\* raises KeyError, swept or not.
C3_Expiry ==
    lastOp.op = "get" =>
        LET t == lastSetAt[lastOp.key] IN
        /\ lastOp.error \in {"", "KeyError"}
        /\ lastOp.error = "" => (t # NULL /\ ~Older(t))
        /\ (t # NULL /\ Older(t)) => lastOp.error = "KeyError"

\* a get raised KeyError on a key that is still stored: expired, not swept
C3_Witness ==
    /\ lastOp.op = "get"
    /\ lastOp.error = "KeyError"
    /\ lastOp.key \in DOMAIN cache
    /\ Older(lastSetAt[lastOp.key])

\* what C4 asks of one step
C4_Step ==
    lastOp'.op = "set" =>
        /\ \A A, B \in Keys :
              ( /\ A # B
                /\ firstSetAt[A] # NULL /\ firstSetAt[B] # NULL
                /\ Older(firstSetAt[A])
                /\ lastSetAt[A] > firstSetAt[A] /\ ~Older(lastSetAt[A])
                /\ ~Older(firstSetAt[B]) )
              => /\ B \in DOMAIN cache'
                 /\ (A \in DOMAIN cache') <=> (A = lastOp'.key)
        /\ LET k == lastOp'.key IN
           (firstSetAt[k] # NULL /\ ~Older(firstSetAt[k]))
              => /\ Len(history') <= Len(history)
                 /\ history' = SubSeq(history, 1, Len(history'))
                 /\ \E i \in DOMAIN history' :
                       history'[i] = [key |-> k, date |-> firstSetAt[k]]
                 /\ (\A j \in DOMAIN cache : ~Older(firstSetAt[j]))
                       => history' = history

C5_Step ==
    LET N == Cardinality(SetKeys)
        M == Cardinality({k \in SetKeys : Older(lastSetAt[k])})
    IN /\ (lastOp'.op = "len" /\ setsDistinct /\ M = 0) => lastOp'.count = N
       /\ (lastOp'.op = "set" /\ setsDistinct')
             => /\ Cache___len__' = N - M + 1
                /\ Cardinality(lastOp'.evicted) <= M

\* C5: while every set was on a key not set before: a size() taken when none
\* of the N sets is older than time_to_live returns N; and a further set on a
\* new key, made when M of the N are older, leaves N - M + 1 entries.
C5_SizeBookkeeping == [][C5_Step]_vars

\* the third set on a third key has just swept the two older entries
C5_Witness ==
    /\ lastOp.op = "set"
    /\ setsDistinct
    /\ Cardinality(SetKeys) = 3
    /\ Cardinality(lastOp.evicted) = 2
    /\ Cache___len__ = 1

\* C6 (as claimed): every set completes and leaves its key stored with its value.
C6_SetAlwaysStores ==
    lastOp.op = "set" =>
        /\ lastOp.error = ""
        /\ lastOp.key \in DOMAIN cache
        /\ cache[lastOp.key].value = lastOp.value

\* what C7 asks of one step
C7_Step ==
    lastOp'.op = "delete" =>
        /\ lastOp'.error = ""
        /\ lastOp'.key \notin DOMAIN cache'
        /\ lastOp'.key \notin DOMAIN cache
              => (cache' = cache /\ history' = history)

\* C7 (as claimed): no delete raises; a delete leaves its key out of the
\* dict, and a delete of a key that is not stored changes nothing.
C7_DeleteNeverRaises == [][C7_Step]_vars

\* what C8 asks of one step
C8_Step ==
    /\ lastOp'.op = "clear" =>
          /\ Cache___len__' = 0
          /\ \A k \in Keys : DatabaseCache___getitem__(k)'.error = "KeyError"
    /\ (lastOp.op = "clear" /\ lastOp'.op = "len") => lastOp'.count = 0
    /\ (lastOp.op = "clear" /\ lastOp'.op = "get") => lastOp'.error = "KeyError"

\* C8: right after clear() the dict is empty and a get of any key would
\* raise KeyError; the size() or get called next returns 0 or raises KeyError.
C8_Clear == [][C8_Step]_vars

\* clear() has just run on a cache in which one key had been set at most
\* time_to_live ago and another longer ago
C8_Witness ==
    /\ lastOp.op = "clear"
    /\ \E i, j \in DOMAIN history :
          /\ history[i].key # history[j].key
          /\ lastSetAt[history[i].key] = history[i].date
          /\ lastSetAt[history[j].key] = history[j].date
          /\ ~Older(history[i].date)
          /\ Older(history[j].date)

\* what C9 asks of one step
C9_Step ==
    /\ lastOp'.op \in {"get", "len", "has_expired", "tick"}
          => (cache' = cache /\ history' = history)
    /\ Cache___len__' # Cache___len__
          => lastOp'.op \in {"set", "delete", "clear"}

\* C9: get, size(), has_expired and a clock advance leave the dict and the
\* history as they were; the size changes in a set, a delete or a clear only.
C9_ReadsDoNotEvict == [][C9_Step]_vars

\* size() counted two entries, both of them expired
C9_Witness ==
    /\ lastOp.op = "len"
    /\ lastOp.count = 2
    /\ \A k \in DOMAIN cache : has_expired(cache[k].date)

\* C10: has_expired(None) is true at every clock value and time to live.
C10_NoneExpired ==
    /\ has_expired(NULL)
    /\ (lastOp.op = "has_expired" /\ lastOp.date = NULL) => lastOp.expired

\* has_expired(None) was called when no time to live had yet gone by
C10_Witness ==
    /\ lastOp.op = "has_expired"
    /\ lastOp.date = NULL
    /\ lastOp.expired
    /\ utc_now < time_to_live

\* the dates history h holds for key k
HistDatesIn(h, k) == {h[i].date : i \in {j \in DOMAIN h : h[j].key = k}}
HistDates(k) == HistDatesIn(history, k)

\* a set of k now is a re-set: a set of k that is not older began its run
IsReset(k) == firstSetAt[k] # NULL /\ ~Older(firstSetAt[k])

\* what C13 asks of one step
C13_Step ==
    lastOp'.op = "set" =>
        LET n == Len(history)
            m == CHOOSE x \in 0..n :
                    /\ \A i \in (n - x + 1)..n : Older(history[i].date)
                    /\ x < n => ~Older(history[n - x].date)
            kept == SubSeq(history, 1, n - m)
            gone == {history[i].key : i \in (n - m + 1)..n}
            k == lastOp'.key
        IN /\ lastOp'.error = ""
           /\ lastOp'.evicted = gone
           /\ history' \in {kept, <<[key |-> k, date |-> utc_now]>> \o kept}
           /\ DOMAIN cache' = ((DOMAIN cache) \ gone) \cup {k}
           /\ \A j \in DOMAIN cache' : ~Older(cache'[j].date)

\* C13: with set, get and clock advances only, a set removes from the dict
\* and from the history exactly the longest run of expired entries at the
\* tail of the history, stopping at the first entry that is not expired, and
\* after it no stored entry has a date older than time_to_live.
C13_SweepPostCondition == [][C13_Step]_vars

\* a set has just swept one expired key and left an older-than-new entry
\* that is not expired
C13_Witness ==
    /\ lastOp.op = "set"
    /\ Cardinality(lastOp.evicted) = 1
    /\ Len(history) = 2
    /\ history[2].date < utc_now
    /\ history[2].key # lastOp.key

\* C14 (as claimed): the history holds one entry for each stored key, none for
\* a key that is not stored, and no key twice.
C14_HistoryMatchesStorage ==
    /\ \A k \in DOMAIN cache :
          Cardinality({i \in DOMAIN history : history[i].key = k}) = 1
    /\ \A i \in DOMAIN history : history[i].key \in DOMAIN cache

\* C15: the dates of the history never increase from head to tail, so the
\* tail is an oldest entry and every entry nearer the head than an entry that
\* is not expired is not expired either.
C15_HistoryOrdered ==
    /\ \A i, j \in DOMAIN history :
          i < j => history[i].date >= history[j].date
    /\ \A i \in DOMAIN history : history[Len(history)].date <= history[i].date
    /\ \A i, j \in DOMAIN history :
          (i < j /\ ~has_expired(history[j].date)) => ~has_expired(history[i].date)

\* the history holds an expired tail, a head that is not expired, and the
\* same key twice (it was deleted and set again)
C15_Witness ==
    /\ Len(history) = 3
    /\ has_expired(history[3].date)
    /\ ~has_expired(history[1].date)
    /\ \E i, j \in DOMAIN history : i < j /\ history[i].key = history[j].key

\* the date of the history entry of the key just set is its stored date
C16_SameDate == HistDatesIn(history', lastOp'.key) = {cache'[lastOp'.key].date}

\* what C16 asks of one step, but for when the two dates are equal
C16_Step ==
    lastOp'.op = "set" =>
        LET k == lastOp'.key IN
        /\ k \notin DOMAIN cache
              => history'[1] = [key |-> k, date |-> cache'[k].date]
        /\ \A j \in DOMAIN cache' :
              \E d \in Times : /\ HistDatesIn(history', j) = {d}
                               /\ cache'[j].date >= d
        /\ \A j \in (DOMAIN cache') \ {k} :
              cache'[j] = cache[j] /\ HistDatesIn(history', j) = HistDates(j)

\* C16 (as claimed): a set on a key that is not stored writes one date to the
\* stored entry and to the new history entry; every stored key has a stored
\* date not before the date of its history entry, and the two are equal
\* exactly when the key has not been re-set since that entry was created.
C16_TimestampsAsClaimed ==
    [][ /\ C16_Step
        /\ lastOp'.op = "set" => (C16_SameDate <=> ~IsReset(lastOp'.key)) ]_vars

\* C16 (amended): as claimed, but the two dates are equal exactly when the
\* key has not been re-set at a later clock value than the one at which its
\* history entry was created.
C16_Timestamps ==
    [][ /\ C16_Step
        /\ lastOp'.op = "set"
              => (C16_SameDate <=> (~IsReset(lastOp'.key)
                                    \/ firstSetAt[lastOp'.key] = utc_now)) ]_vars

\* a key was re-set after the clock advanced: its stored date is later than
\* the date of its history entry
C16_Witness ==
    /\ lastOp.op = "set"
    /\ HistDates(lastOp.key) = {firstSetAt[lastOp.key]}
    /\ cache[lastOp.key].date > firstSetAt[lastOp.key]
    /\ Len(history) >= 2

\* what C17 asks of one step
C17_Step ==
    LET k == lastOp'.key
        AgeOf(t) == utc_now - t
    IN
    /\ (lastOp'.op = "get" /\ k \in DOMAIN cache)
          => /\ AgeOf(cache[k].date) = time_to_live
                   => (lastOp'.error = "" /\ lastOp'.result = cache[k].value)
             /\ AgeOf(cache[k].date) > time_to_live
                   => lastOp'.error = "KeyError"
    /\ lastOp'.op = "set"
          => /\ \A i \in DOMAIN history :
                   AgeOf(history[i].date) <= time_to_live
                      => /\ history[i].key \in DOMAIN cache'
                         /\ history[i].key \notin lastOp'.evicted
             /\ \A j \in lastOp'.evicted :
                   \E i \in DOMAIN history :
                      history[i].key = j /\ AgeOf(history[i].date) > time_to_live
    /\ (lastOp'.op = "has_expired" /\ lastOp'.date # NULL)
          => (lastOp'.expired <=> AgeOf(lastOp'.date) > time_to_live)

\* C17: an entry whose age is exactly time_to_live is not expired: get
\* returns its value and the sweep of a set keeps it; it is expired, to get,
\* to the sweep and to has_expired, only when its age is more than
\* time_to_live.
C17_StrictBoundary == [][C17_Step]_vars

\* a set has just swept an entry one tick past its time to live and kept
\* another whose age is exactly the time to live
C17_Witness ==
    /\ lastOp.op = "set"
    /\ lastOp.evicted # {}
    /\ time_to_live > 0
    /\ \E j \in DOMAIN cache :
          /\ j # lastOp.key
          /\ utc_now - cache[j].date = time_to_live
          /\ HistDates(j) = {cache[j].date}

\* C18 (as claimed): after clear() the cache is as DatabaseCache.__init__
\* leaves it: the dict is empty and the history is empty.
C18_ClearIsFresh ==
    lastOp.op = "clear" => (DOMAIN cache = {} /\ history = <<>>)

\* ---- the calls of SqlWrapper ----
\* a step of SpecSqlWrapper that leaves the clock alone is a call
IsCall(names) == utc_now' = utc_now /\ lastCall'.name \in names

ValidCall(call) ==
    /\ Text(call.query) # ""
    /\ \A i \in DOMAIN call.params : call.params[i].is_parameter

\* the key of a call: the query (for get_first the query add_top_1 returns)
\* and the serialized parameters
KeyOfCall(call) ==
    [query |-> IF call.name \in {"get_list", "get_list_direct"}
               THEN Text(call.query)
               ELSE add_top_1(call.query),
     params |-> serialize(call.params)]

Readable(object, key) ==
    /\ key \in DOMAIN object.cache
    /\ (utc_now - object.cache[key].date) <= time_to_live

\* what C11 asks of one call of get_list or get_first with valid input
C11_Step ==
    (IsCall({"get_list", "get_first"}) /\ ValidCall(lastCall')) =>
        LET call == lastCall'
            isList == call.name = "get_list"
            before == IF isList THEN list_cache ELSE first_cache
            after == IF isList THEN list_cache' ELSE first_cache'
            key == KeyOfCall(call)
        IN /\ call.error = ""
           /\ IF Readable(before, key)
              THEN /\ call.lookups = 0
                   /\ call.result = before.cache[key].value
                   /\ after = before
              ELSE /\ call.lookups = 1
                   /\ key \in DOMAIN after.cache
                   /\ after.cache[key] = [value |-> call.result, date |-> utc_now]
                   /\ \A j \in (DOMAIN after.cache) \ {key} :
                         j \in DOMAIN before.cache
                         /\ after.cache[j] = before.cache[j]
                   /\ key \in DOMAIN before.cache
                         => (utc_now - before.cache[key].date) > time_to_live
           /\ Readable(after, key) /\ after.cache[key].value = call.result
           /\ IF isList
              THEN first_cache' = first_cache /\ call.result \in ListResults
              ELSE list_cache' = list_cache /\ call.result \in FirstResults

\* C11: a call of get_list (get_first) with valid input whose key is readable
\* in list_cache (first_cache) returns the stored result without a host
\* lookup; otherwise it makes exactly one host lookup, stores the result under
\* the key and returns it.  So a key looked up is not looked up again while
\* its entry is stored and no older than time_to_live, and neither call
\* returns or touches what the other one stored.
C11_CacheAside == [][C11_Step]_vars

\* get_first answers from first_cache, on a later tick and with parameters,
\* for a key that list_cache holds too
C11_Witness ==
    /\ lastCall.name = "get_first"
    /\ ValidCall(lastCall)
    /\ lastCall.lookups = 0
    /\ lastCall.params # <<>>
    /\ KeyOfCall(lastCall) \in DOMAIN first_cache.cache
    /\ first_cache.cache[KeyOfCall(lastCall)].date < utc_now
    /\ KeyOfCall(lastCall) \in DOMAIN list_cache.cache

\* what C12 asks of one call of get_list_direct or get_first_direct
C12_Step ==
    IsCall({"get_list_direct", "get_first_direct"}) =>
        /\ first_cache' = first_cache
        /\ list_cache' = list_cache
        /\ ValidCall(lastCall') =>
              /\ lastCall'.lookups = 1
              /\ lastCall'.error = ""
              /\ lastCall'.result \in IF lastCall'.name = "get_list_direct"
                                      THEN ListResults ELSE FirstResults

\* C12: every call of get_first_direct and get_list_direct with valid input
\* makes the host lookup, and no call of them changes the storage or the
\* history of first_cache or list_cache.
C12_DirectSkipsCache == [][C12_Step]_vars

\* get_first_direct looks up a key that first_cache could have answered, and
\* returns another result than the stored one
C12_Witness ==
    /\ lastCall.name = "get_first_direct"
    /\ ValidCall(lastCall)
    /\ lastCall.lookups = 1
    /\ Readable(first_cache, KeyOfCall(lastCall))
    /\ first_cache.cache[KeyOfCall(lastCall)].value # lastCall.result

====
